---- MODULE Spec2Model ----
(***************************************************************************)
(* Book-lending tracker of case/library_pro.py: the record store           *)
(* (add / borrow / join_waitlist / return / renew) over one shared list of *)
(* records, with the Turkish-aware text normalisation it compares with.    *)
(*                                                                         *)
(* Text is a sequence of one-character strings.  An optional value is a    *)
(* sequence of length at most one: <<>> is Python's None, <<v>> is v.      *)
(* The wall clock is an integer count of ticks, TicksPerDay to a day; a    *)
(* date string "%Y-%m-%d" is the day number, so formatting a datetime      *)
(* drops its time of day and parsing a date gives that day's midnight.     *)
(* One call reads the clock once: the clock does not move inside a call.   *)
(* The characters outside ASCII are written "u:" (u with diaeresis),       *)
(* "U:" (its capital), "I." (capital I with dot), "i-" (dotless i), "s,"   *)
(* and "S," (s with cedilla) and "^." (the combining dot above).           *)
(*                                                                         *)
(* A date field read from a file may hold text that is no "%Y-%m-%d" date: *)
(* it is the two-element sequence BadDate, so that a field is absent when  *)
(* its length is 0, a date when it is 1 and unparseable text when it is 2. *)
(* A Python object passed where an int is expected is a record saying      *)
(* whether it is an int and which number it spells.                        *)
(***************************************************************************)
EXTENDS Integers, Sequences, FiniteSets, TLC

VARIABLES books, now, last, hist, save

vars == <<books, now, last, hist, save>>

\* ------------------------------------------------------------------ bounds
\* Records in the library-wide specification, and in the one-record ones.
MaxBooks == 2
LoanBooks == 1
\* The last clock tick, and how far past today a renewal may push a due date.
MaxNow == 4
MaxAhead == 36
MaxAheadWait == 15
\* Clock ticks to a day: tick 0 of a day is its midnight.
TicksPerDay == 2

\* ------------------------------------------------------- optional values
None == <<>>
Some(v) == <<v>>
IsNone(o) == o = <<>>
Val(o) == o[1]

\* The sequences over S of length at most n.
RECURSIVE SeqsUpTo(_, _)
SeqsUpTo(S, n) ==
    IF n = 0 THEN {<<>>}
    ELSE LET shorter == SeqsUpTo(S, n - 1)
         IN  shorter \cup {Append(q, x) : q \in shorter, x \in S}

\* ------------------------------------------------------------------ text
Space == " "

RECURSIVE LStrip(_)
LStrip(s) == IF s # <<>> /\ Head(s) = Space THEN LStrip(Tail(s)) ELSE s

RECURSIVE RStrip(_)
RStrip(s) ==
    IF s # <<>> /\ s[Len(s)] = Space THEN RStrip(SubSeq(s, 1, Len(s) - 1)) ELSE s

\* str.strip()
Strip(s) == RStrip(LStrip(s))

\* A non-empty str that strptime("%Y-%m-%d") rejects with ValueError.
BadDate == <<0, "?">>
\* isinstance(d, str) and d, and strptime accepts it
Parseable(o) == Len(o) = 1

\* The letters that have another case, capital and small at the same index.
UpperLetters ==
    <<"A", "B", "C", "D", "E", "F", "G", "H", "J", "K", "L", "M", "N", "O",
      "P", "Q", "R", "S", "T", "U", "V", "W", "X", "Y", "Z", "U:", "S,">>
LowerLetters ==
    <<"a", "b", "c", "d", "e", "f", "g", "h", "j", "k", "l", "m", "n", "o",
      "p", "q", "r", "s", "t", "u", "v", "w", "x", "y", "z", "u:", "s,">>

\* NFKD decomposition with the combining marks dropped, one character
AccentChar(c) ==
    CASE c = "u:" -> "u"
      [] c = "U:" -> "U"
      [] c = "I." -> "I"
      [] c = "s," -> "s"
      [] c = "S," -> "S"
      [] OTHER -> c

strip_accents(s) == [i \in 1..Len(s) |-> AccentChar(s[i])]

\* str.lower() on the characters left after _TR_MAP
LowerOf ==
    [c \in {UpperLetters[k] : k \in DOMAIN UpperLetters} |->
        LowerLetters[CHOOSE k \in DOMAIN UpperLetters : UpperLetters[k] = c]]

LowerChar(c) == IF c \in DOMAIN LowerOf THEN LowerOf[c] ELSE c

\* _TR_MAP: I -> dotless i, dotted capital I -> i
TrMapChar(c) ==
    CASE c = "I" -> "i-"
      [] c = "I." -> "i"
      [] OTHER -> c

tr_lower(s) == [i \in 1..Len(s) |-> LowerChar(TrMapChar(s[i]))]

\* norm_key of a str
NormText(s) == IF s = <<>> THEN <<>> ELSE tr_lower(strip_accents(Strip(s)))

\* norm_key of an Optional[str]
norm_key(o) == IF IsNone(o) THEN <<>> ELSE NormText(Val(o))

\* str.upper(), one character
UpperOf ==
    [c \in {LowerLetters[k] : k \in DOMAIN LowerLetters} |->
        UpperLetters[CHOOSE k \in DOMAIN LowerLetters : LowerLetters[k] = c]]

UpperChar(c) ==
    IF c = "i-" \/ c = "i" THEN "I"
    ELSE IF c \in DOMAIN UpperOf THEN UpperOf[c] ELSE c

\* str.split(): the maximal runs of non-space characters
RECURSIVE Split(_)
Split(s) ==
    LET t == LStrip(s)
        n == IF \E i \in 1..Len(t) : t[i] = Space
             THEN (CHOOSE i \in 1..Len(t) :
                      t[i] = Space /\ \A j \in 1..(i - 1) : t[j] # Space) - 1
             ELSE Len(t)
    IN  IF t = <<>> THEN <<>>
        ELSE <<SubSeq(t, 1, n)>> \o Split(SubSeq(t, n + 1, Len(t)))

TitleWord(w) ==
    LET first == Head(w)
        head == IF first = "i" THEN "I."
                ELSE IF first = "i-" THEN "I" ELSE UpperChar(first)
    IN  <<head>> \o tr_lower(Tail(w))

RECURSIVE JoinWords(_)
JoinWords(ws) ==
    IF ws = <<>> THEN <<>>
    ELSE IF Len(ws) = 1 THEN ws[1]
    ELSE ws[1] \o <<Space>> \o JoinWords(Tail(ws))

titlecase_tr(s) ==
    LET ws == Split(Strip(s))
    IN  JoinWords([i \in 1..Len(ws) |-> TitleWord(ws[i])])

\* ----------------------------------------------------------------- clock
\* strftime("%Y-%m-%d") of a datetime
DateOf(t) == t \div TicksPerDay
\* strptime(d, "%Y-%m-%d")
Midnight(d) == d * TicksPerDay
_today_str == DateOf(now)
_in_days_str(days) == DateOf(now + days * TicksPerDay)
_now_iso == now

\* --------------------------------------------------------------- records
NewBook(nid, t, a) ==
    [id |-> nid, title |-> t, author |-> a, available |-> TRUE,
     borrower |-> None, due_date |-> None, borrowed_at |-> None,
     created_at |-> _now_iso, waitlist |-> <<>>]

\* "for b in books: if b.get("id") == book_id": the first match, 0 for none
FindIdx(bs, book_id) ==
    IF \E i \in 1..Len(bs) : bs[i].id = book_id
    THEN CHOOSE i \in 1..Len(bs) :
            bs[i].id = book_id /\ \A j \in 1..(i - 1) : bs[j].id # book_id
    ELSE 0

\* What a call gives back: the exception raised ("" for none), the value
\* returned, the delay of a return, and the collection after the call.
Result(e, r, d, bs) == [err |-> e, ret |-> r, delay |-> d, books |-> bs]

Max(a, b) == IF a >= b THEN a ELSE b

RECURSIVE MaxId(_)
MaxId(bs) == IF bs = <<>> THEN 0 ELSE Max(bs[1].id, MaxId(Tail(bs)))

\* Mutant of NextId: the length of the list, not one past the largest id.
NextIdLen(bs) == IF bs # <<>> THEN Len(bs) ELSE 1

NextId(bs) == IF bs # <<>> THEN MaxId(bs) + 1 ELSE 1

IsDuplicate(bs, t, a) ==
    \E i \in 1..Len(bs) :
        /\ NormText(bs[i].title) = NormText(t)
        /\ NormText(bs[i].author) = NormText(a)

\* Mutant of add_book_pro: books.insert(0, rec) for books.append(rec), the
\* records already there move down by one.
AddAtFront(bs, title, author, disallow_duplicates) ==
    LET t == titlecase_tr(Strip(title))
        a == titlecase_tr(Strip(author))
    IN  IF Strip(title) = <<>> \/ Strip(author) = <<>>
        THEN Result("ValidationError", "raise", 0, bs)
        ELSE IF disallow_duplicates /\ IsDuplicate(bs, t, a)
        THEN Result("DuplicateBookError", "raise", 0, bs)
        ELSE Result("", "book", 0, <<NewBook(NextId(bs), t, a)>> \o bs)

add_book_pro(bs, title, author, disallow_duplicates) ==
    LET t == titlecase_tr(Strip(title))
        a == titlecase_tr(Strip(author))
    IN  IF Strip(title) = <<>> \/ Strip(author) = <<>>
        THEN Result("ValidationError", "raise", 0, bs)
        ELSE IF disallow_duplicates /\ IsDuplicate(bs, t, a)
        THEN Result("DuplicateBookError", "raise", 0, bs)
        ELSE Result("", "book", 0, Append(bs, NewBook(NextId(bs), t, a)))

\* Mutant of BorrowRecord: the name stored as typed, not trimmed.
BorrowRecordRaw(b, username, days) ==
    [b EXCEPT !.available = FALSE,
              !.borrower = Some(username),
              !.borrowed_at = Some(_today_str),
              !.due_date = Some(_in_days_str(days))]

BorrowRecord(b, username, days) ==
    [b EXCEPT !.available = FALSE,
              !.borrower = Some(Strip(username)),
              !.borrowed_at = Some(_today_str),
              !.due_date = Some(_in_days_str(days))]

\* str.lower(), which knows no Turkish: I gives i, and the dotted capital
\* gives i followed by the combining dot above
RECURSIVE str_lower(_)
str_lower(s) ==
    IF s = <<>> THEN <<>>
    ELSE (IF Head(s) = "I" THEN <<"i">>
          ELSE IF Head(s) = "I." THEN <<"i", "^.">>
          ELSE <<LowerChar(Head(s))>>) \o str_lower(Tail(s))

\* "tok in H" and H.startswith(tok)
StartsWith(h, tok) == Len(tok) <= Len(h) /\ SubSeq(h, 1, Len(tok)) = tok
Contains(h, tok) ==
    \E k \in 0..(Len(h) - Len(tok)) : SubSeq(h, k + 1, k + Len(tok)) = tok

\* The characters in the order of their code points, which is the order
\* Python compares str by.
CodeOrder ==
    <<" ", "1", "4", "8", "9", "?">>
    \o SubSeq(UpperLetters, 1, 8) \o <<"I">> \o SubSeq(UpperLetters, 9, 25)
    \o SubSeq(LowerLetters, 1, 8) \o <<"i">> \o SubSeq(LowerLetters, 9, 25)
    \o <<"U:", "u:", "I.", "i-", "S,", "s,", "^.">>
OrdOf ==
    [c \in {CodeOrder[k] : k \in DOMAIN CodeOrder} |->
        CHOOSE k \in DOMAIN CodeOrder : CodeOrder[k] = c]
StrLess(x, y) ==
    \E k \in 1..(Len(y)) :
        /\ k <= Len(x) + 1
        /\ SubSeq(x, 1, k - 1) = SubSeq(y, 1, k - 1)
        /\ k = Len(x) + 1 \/ OrdOf[x[k]] < OrdOf[y[k]]

\* hay(b): the text a query is matched against
Hay(b, normalize) ==
    LET hs == Strip(b.title \o <<Space>> \o b.author)
    IN  IF normalize THEN NormText(hs) ELSE str_lower(hs)

\* The text match of search_books_adv.  A pattern is a literal text here: a
\* regular expression without operators, found anywhere, case ignored.
TextMatch(b, q_raw, mode, regex, normalize) ==
    \E H \in {Hay(b, normalize)} :
    \E toks \in {Split(IF normalize THEN NormText(q_raw)
                                    ELSE str_lower(q_raw))} :
        IF regex
        THEN Contains(str_lower(H),
                      str_lower(IF normalize THEN NormText(q_raw) ELSE q_raw))
        ELSE IF mode = "all"
        THEN \A k \in 1..Len(toks) : Contains(H, toks[k])
        ELSE IF mode = "prefix"
        THEN \E k \in 1..Len(toks) :
                \/ StartsWith(H, toks[k])
                \/ StartsWith(str_lower(b.title), toks[k])
        ELSE \E k \in 1..Len(toks) : Contains(H, toks[k])

\* Mutant of FilterAvailable: "if available:" for "if available is not
\* None:", so that asking for the records on loan filters nothing.
FilterAvailableIfTrue(res, available) ==
    IF available = Some(TRUE)
    THEN SelectSeq(res, LAMBDA b : b.available = Val(available))
    ELSE res

FilterAvailable(res, available) ==
    IF available # None
    THEN SelectSeq(res, LAMBDA b : b.available = Val(available))
    ELSE res

\* "if borrower:": a filter for every name but the empty one
FilterBorrower(res, borrower) ==
    IF borrower # None /\ Val(borrower) # <<>>
    THEN SelectSeq(res, LAMBDA b : norm_key(b.borrower) = norm_key(borrower))
    ELSE res

\* The due_before filter sits in one try block: a ValueError from strptime,
\* of the limit or of any candidate's due_date, leaves res as it was.
FilterDueBefore(res, due_before) ==
    IF due_before = None THEN res
    ELSE IF ~Parseable(due_before) THEN res
    ELSE IF \E k \in 1..Len(res) : res[k].due_date = BadDate THEN res
    ELSE SelectSeq(res, LAMBDA b :
            /\ Parseable(b.due_date)
            /\ Midnight(Val(b.due_date)) < Midnight(Val(due_before)))

\* The sort keys: x sorts before y.  A missing due_date counts as
\* "9999-12-31", past every date the clock reaches, and the unparseable
\* text "?" comes after every digit.
DueKey(b) ==
    IF IsNone(b.due_date) THEN <<1, 0>>
    ELSE IF Parseable(b.due_date) THEN <<0, Val(b.due_date)>>
    ELSE <<2, 0>>
KeyLess(order_by, x, y) ==
    IF order_by = "author"
    THEN \/ StrLess(str_lower(x.author), str_lower(y.author))
         \/ /\ str_lower(x.author) = str_lower(y.author)
            /\ StrLess(x.title, y.title)
    ELSE IF order_by = "due"
    THEN \/ DueKey(x)[1] < DueKey(y)[1]
         \/ DueKey(x)[1] = DueKey(y)[1] /\ DueKey(x)[2] < DueKey(y)[2]
    ELSE IF order_by = "created" THEN x.created_at > y.created_at
    ELSE StrLess(str_lower(x.title), str_lower(y.title))

\* list.sort: stable, equal keys keep their order (also with reverse=True)
SortBy(res, order_by) ==
    LET n == Len(res)
        pos(i) == 1 + Cardinality({j \in 1..n :
                         \/ KeyLess(order_by, res[j], res[i])
                         \/ ~KeyLess(order_by, res[i], res[j]) /\ j < i})
    IN  [q \in 1..n |-> res[CHOOSE i \in 1..n : pos(i) = q]]

\* c: the arguments query, mode, regex, normalize, available, borrower,
\* due_before and order_by
search_books_adv(bs, c) ==
    IF Strip(c.query) = <<>> THEN <<>>
    ELSE LET matched == SelectSeq(bs, LAMBDA b :
                 TextMatch(b, Strip(c.query), c.mode, c.regex, c.normalize))
         IN  SortBy(FilterDueBefore(
                        FilterBorrower(FilterAvailable(matched, c.available),
                                       c.borrower),
                        c.due_before),
                    c.order_by)

\* "row.get(col) or ''": a missing column reads as the empty text
OrEmpty(o) == IF IsNone(o) THEN <<>> ELSE Val(o)

\* The rows of a csv.DictReader, first to last; added counts the adds made.
RECURSIVE ImportRows(_, _, _)
ImportRows(bs, rows, added) ==
    IF rows = <<>>
    THEN [err |-> "", ret |-> "int", delay |-> 0, books |-> bs, added |-> added]
    ELSE LET t == Strip(OrEmpty(Head(rows).title))
             a == Strip(OrEmpty(Head(rows).author))
             r == add_book_pro(bs, t, a, TRUE)
         IN  IF t = <<>> \/ a = <<>> THEN ImportRows(bs, Tail(rows), added)
             ELSE IF r.err = "DuplicateBookError"
             THEN ImportRows(bs, Tail(rows), added)
             ELSE IF r.err # ""
             THEN [err |-> r.err, ret |-> "raise", delay |-> 0, books |-> bs,
                   added |-> added]
             ELSE ImportRows(r.books, Tail(rows), added + 1)

\* file: None when the path does not exist, else the rows of the file
import_from_csv(bs, file) ==
    IF IsNone(file)
    THEN [err |-> "FileNotFoundError", ret |-> "raise", delay |-> 0,
          books |-> bs, added |-> 0]
    ELSE ImportRows(bs, Val(file), 0)

\* An argument passed as book_id: the int n, or the str that spells n.
PyInt(n) == [isint |-> TRUE, v |-> n]
PyStr(n) == [isint |-> FALSE, v |-> n]

\* Mutant of borrow_book_safe: "days < 0" for "days <= 0".
BorrowZeroDaysAllowed(bs, book_id, username, days) ==
    LET i == FindIdx(bs, book_id.v)
    IN  IF ~book_id.isint THEN Result("ValidationError", "raise", 0, bs)
        ELSE IF days < 0 THEN Result("ValidationError", "raise", 0, bs)
        ELSE IF Strip(username) = <<>>
        THEN Result("ValidationError", "raise", 0, bs)
        ELSE IF i = 0 THEN Result("NotFoundError", "raise", 0, bs)
        ELSE IF bs[i].available
        THEN Result("", "True", 0,
                    [bs EXCEPT ![i] = BorrowRecord(bs[i], username, days)])
        ELSE Result("", "False", 0, bs)

borrow_book_safe(bs, book_id, username, days) ==
    LET i == FindIdx(bs, book_id.v)
    IN  IF ~book_id.isint THEN Result("ValidationError", "raise", 0, bs)
        ELSE IF days <= 0 THEN Result("ValidationError", "raise", 0, bs)
        ELSE IF Strip(username) = <<>>
        THEN Result("ValidationError", "raise", 0, bs)
        ELSE IF i = 0 THEN Result("NotFoundError", "raise", 0, bs)
        ELSE IF bs[i].available
        THEN Result("", "True", 0,
                    [bs EXCEPT ![i] = BorrowRecord(bs[i], username, days)])
        ELSE Result("", "False", 0, bs)

\* Mutant of InWaitlist: the names compared as typed, not normalised.
InWaitlistRaw(wl, username) ==
    \E k \in 1..Len(wl) : wl[k] = Strip(username)

\* any(norm_key(x) == key for x in wl)
InWaitlist(wl, username) ==
    \E k \in 1..Len(wl) : NormText(wl[k]) = NormText(username)

\* Mutant of join_waitlist: an available record takes waiters too.
JoinAvailableToo(bs, book_id, username) ==
    LET i == FindIdx(bs, book_id)
    IN  IF i = 0 THEN Result("NotFoundError", "raise", 0, bs)
        ELSE IF InWaitlist(bs[i].waitlist, username)
        THEN Result("", "False", 0, bs)
        ELSE Result("", "True", 0,
                    [bs EXCEPT ![i].waitlist = Append(@, Strip(username))])

\* Mutant of join_waitlist: wl.insert(0, ...) for wl.append(...), the
\* newcomer goes to the head of the queue.
JoinAtFront(bs, book_id, username) ==
    LET i == FindIdx(bs, book_id)
    IN  IF i = 0 THEN Result("NotFoundError", "raise", 0, bs)
        ELSE IF bs[i].available THEN Result("", "False", 0, bs)
        ELSE IF InWaitlist(bs[i].waitlist, username)
        THEN Result("", "False", 0, bs)
        ELSE Result("", "True", 0,
                    [bs EXCEPT ![i].waitlist = <<Strip(username)>> \o @])

join_waitlist(bs, book_id, username) ==
    LET i == FindIdx(bs, book_id)
    IN  IF i = 0 THEN Result("NotFoundError", "raise", 0, bs)
        ELSE IF bs[i].available THEN Result("", "False", 0, bs)
        ELSE IF InWaitlist(bs[i].waitlist, username)
        THEN Result("", "False", 0, bs)
        ELSE Result("", "True", 0,
                    [bs EXCEPT ![i].waitlist = Append(@, Strip(username))])

DefaultLoanDays == 14

\* Mutant of _assign_next_waiter: wl.pop() for wl.pop(0), the newest waiter.
AssignLastWaiter(b) ==
    IF b.waitlist = <<>> THEN b
    ELSE [b EXCEPT !.waitlist = SubSeq(@, 1, Len(@) - 1),
                   !.available = FALSE,
                   !.borrower = Some(b.waitlist[Len(b.waitlist)]),
                   !.borrowed_at = Some(_today_str),
                   !.due_date = Some(_in_days_str(DefaultLoanDays))]

_assign_next_waiter(b) ==
    IF b.waitlist = <<>> THEN b
    ELSE [b EXCEPT !.waitlist = Tail(@),
                   !.available = FALSE,
                   !.borrower = Some(Head(b.waitlist)),
                   !.borrowed_at = Some(_today_str),
                   !.due_date = Some(_in_days_str(DefaultLoanDays))]

\* Mutant of DelayOf: the difference in days without "max(0, ...)".
DelayOfUnclamped(b) ==
    IF ~Parseable(b.due_date) THEN 0
    ELSE (now - Midnight(Val(b.due_date))) \div TicksPerDay

\* max(0, (datetime.now() - due_dt).days); 0 without a date that parses
DelayOf(b) ==
    IF ~Parseable(b.due_date) THEN 0
    ELSE Max(0, (now - Midnight(Val(b.due_date))) \div TicksPerDay)

\* Mutants of ClearLoan: a return that forgets to reset one field.
ClearLoanKeepsBorrowedAt(b) ==
    [b EXCEPT !.available = TRUE, !.borrower = None, !.due_date = None]

ClearLoanKeepsDue(b) ==
    [b EXCEPT !.available = TRUE, !.borrower = None, !.borrowed_at = None]

ClearLoan(b) ==
    [b EXCEPT !.available = TRUE, !.borrower = None,
              !.due_date = None, !.borrowed_at = None]

\* Mutant of return_book_with_delay: a record that is not on loan is refused.
ReturnOnlyBorrowed(bs, book_id) ==
    LET i == FindIdx(bs, book_id)
    IN  IF i = 0 THEN Result("NotFoundError", "raise", 0, bs)
        ELSE IF bs[i].available THEN Result("", "False", 0, bs)
        ELSE Result("", "True", DelayOf(bs[i]),
                    [bs EXCEPT ![i] = _assign_next_waiter(ClearLoan(bs[i]))])

\* Mutant of return_book_with_delay: the call to _assign_next_waiter is left
\* out, the record comes back available with its waiters still queued.
ReturnNoAssign(bs, book_id) ==
    LET i == FindIdx(bs, book_id)
    IN  IF i = 0 THEN Result("NotFoundError", "raise", 0, bs)
        ELSE Result("", "True", DelayOf(bs[i]),
                    [bs EXCEPT ![i] = ClearLoan(bs[i])])

return_book_with_delay(bs, book_id) ==
    LET i == FindIdx(bs, book_id)
    IN  IF i = 0 THEN Result("NotFoundError", "raise", 0, bs)
        ELSE Result("", "True", DelayOf(bs[i]),
                    [bs EXCEPT ![i] = _assign_next_waiter(ClearLoan(bs[i]))])

\* date.weekday() of day number 0 (Monday is 0): 1970-01-01 was a Thursday.
WeekdayOfDay0 == 3
Weekday(d) == (d + WeekdayOfDay0) % 7

\* Money is counted in hundredths, the precision round(x, 2) keeps: base is
\* the fee per day in hundredths.  The days looked at are those before the
\* clock's today.
calc_fee(delay_days, base, weekend_free) ==
    IF delay_days <= 0 THEN 0
    ELSE IF ~weekend_free THEN delay_days * base
    ELSE base * Cardinality({i \in 0..(delay_days - 1) :
                                Weekday(_today_str - (i + 1)) < 5})

return_book_with_delay_fee(bs, book_id, fee_per_day) ==
    LET r == return_book_with_delay(bs, book_id)
    IN  [err |-> r.err, ret |-> r.ret, delay |-> r.delay, books |-> r.books,
         fee |-> IF r.ret = "True" THEN calc_fee(r.delay, fee_per_day, TRUE)
                 ELSE 0]

\* today_dt: strptime of the today argument (None: _today_str()), or the
\* clock itself, time of day included, when the argument does not parse.
TodayDt(today) ==
    IF IsNone(today) THEN Midnight(_today_str)
    ELSE IF Parseable(today) THEN Midnight(Val(today))
    ELSE now

\* Mutant of IsOverdue: "<=" for "<", a loan due today counted as overdue.
IsOverdueOrDueToday(b, today_dt) ==
    /\ ~b.available
    /\ Parseable(b.due_date)
    /\ Midnight(Val(b.due_date)) <= today_dt

\* The test list_overdue_stats applies to one record.
IsOverdue(b, today_dt) ==
    /\ ~b.available
    /\ Parseable(b.due_date)
    /\ Midnight(Val(b.due_date)) < today_dt

RECURSIVE OverdueScan(_, _, _, _, _)
OverdueScan(bs, today_dt, fee_per_day, out, total_fee) ==
    IF bs = <<>> THEN [out |-> out, count |-> Len(out), fee |-> total_fee]
    ELSE IF IsOverdue(Head(bs), today_dt)
    THEN LET delay == (today_dt - Midnight(Val(Head(bs).due_date)))
                         \div TicksPerDay
         IN  OverdueScan(Tail(bs), today_dt, fee_per_day,
                         Append(out, Head(bs)),
                         total_fee + calc_fee(delay, fee_per_day, TRUE))
    ELSE OverdueScan(Tail(bs), today_dt, fee_per_day, out, total_fee)

list_overdue_stats(bs, today, fee_per_day) ==
    OverdueScan(bs, TodayDt(today), fee_per_day, <<>>, 0)

\* The texts of seed_books_initial.
Dune == <<"D", "u", "n", "e">>
FrankHerbert ==
    <<"F", "r", "a", "n", "k", " ", "H", "e", "r", "b", "e", "r", "t">>
KurkMantoluMadonna ==
    <<"K", "u:", "r", "k", " ", "M", "a", "n", "t", "o", "l", "u", " ",
      "M", "a", "d", "o", "n", "n", "a">>
SabahattinAli ==
    <<"S", "a", "b", "a", "h", "a", "t", "t", "i", "n", " ", "A", "l", "i">>
Title1984 == <<"1", "9", "8", "4">>
GeorgeOrwell ==
    <<"G", "e", "o", "r", "g", "e", " ", "O", "r", "w", "e", "l", "l">>
Zey == <<"Z", "e", "y">>
Ayse == <<"A", "y", "s,", "e">>
SeedDueAgo == 2
SeedLoanDays == 14

\* "for b in books: if b['title'] == '1984': b.update(...); break"
RECURSIVE SeedLoan(_)
SeedLoan(bs) ==
    IF bs = <<>> THEN <<>>
    ELSE IF Head(bs).title = Title1984
    THEN <<[Head(bs) EXCEPT
               !.available = FALSE,
               !.borrower = Some(Zey),
               !.borrowed_at = Some(_in_days_str(-SeedDueAgo) - SeedLoanDays),
               !.due_date = Some(_in_days_str(-SeedDueAgo)),
               !.waitlist = <<Ayse>>]>> \o Tail(bs)
    ELSE <<Head(bs)>> \o SeedLoan(Tail(bs))

seed_books_initial ==
    LET b1 == add_book_pro(<<>>, Dune, FrankHerbert, TRUE).books
        b2 == add_book_pro(b1, KurkMantoluMadonna, SabahattinAli, TRUE).books
        b3 == add_book_pro(b2, Title1984, GeorgeOrwell, TRUE).books
    IN  SeedLoan(b3)

\* _migrate_if_needed on one record read from a file: a key the file lacks
\* (None here) gets its default.
Migrate(b) ==
    [b EXCEPT !.created_at = IF IsNone(@) THEN _now_iso ELSE Val(@),
              !.available = IF IsNone(@) THEN TRUE ELSE Val(@),
              !.waitlist = IF IsNone(@) THEN <<>> ELSE Val(@)]

\* file: None for a path that is missing or holds no JSON, else the records
\* of its "books" list
load_from_file_safe(file) ==
    IF IsNone(file) THEN <<>>
    ELSE [i \in 1..Len(Val(file)) |-> Migrate(Val(file)[i])]

\* ------------------------------------------------------------ saving
\* A file's content is the sequence of the chunks json.dump writes: the
\* opening, the meta fields, one chunk per record, the closing.  A path is
\* a directory and a name.
SavePath == [dir |-> "cwd", name |-> "books_pro.json"]
DirOf(path) == path.dir

\* A record as a file spells it: every key is present.
ToFile(b) ==
    [b EXCEPT !.created_at = Some(@), !.available = Some(@),
              !.waitlist = Some(@)]

\* payload, as json.dump writes it
Serialize(data, with_meta) ==
    <<[kind |-> "open", meta |-> with_meta]>>
    \o (IF with_meta
        THEN <<[kind |-> "meta", version |-> "pro-3", saved_at |-> _now_iso,
                total_books |-> Len(data)]>>
        ELSE <<>>)
    \o [i \in 1..Len(data) |-> [kind |-> "book", b |-> data[i]]]
    \o <<[kind |-> "close"]>>

\* json.load accepts a content only when it is whole.
Complete(content) ==
    /\ Len(content) >= 2
    /\ content[1].kind = "open"
    /\ content[Len(content)].kind = "close"
    /\ \A k \in 2..(Len(content) - 1) : content[k].kind \in {"meta", "book"}

\* What load_from_file_safe finds at the target path: None for a missing
\* file and for one json.load refuses, else the records of the file.
ReadTarget(target) ==
    IF IsNone(target) \/ ~Complete(Val(target)) THEN None
    ELSE LET bk == SelectSeq(Val(target), LAMBDA ch : ch.kind = "book")
         IN  Some([i \in 1..Len(bk) |-> ToFile(bk[i].b)])

\* save: the step _atomic_write_json is at (idle, dump, replace), the
\* payload it writes, the content of the target path (None: no such file)
\* and the temporary file (None: none created yet).
NoSave(target) ==
    [pc |-> "idle", payload |-> <<>>, target |-> target, tmp |-> None]

\* NamedTemporaryFile("w", delete=False, dir=dir_name): a new empty file
OpenTemp(s, data, with_meta) ==
    [s EXCEPT !.pc = "dump",
              !.payload = Serialize(data, with_meta),
              !.tmp = Some([dir |-> DirOf(SavePath), content |-> <<>>])]

\* Mutant of DumpChunk: open(path, "w") and json.dump into the target.
DumpChunkToTarget(s) ==
    LET c == Append(Val(s.tmp).content, s.payload[Len(Val(s.tmp).content) + 1])
    IN  [s EXCEPT !.tmp = Some([Val(@) EXCEPT !.content = c]),
                  !.target = Some(c)]

\* json.dump(payload, tmp): the next chunk reaches the temporary file
DumpChunk(s) ==
    LET c == Append(Val(s.tmp).content, s.payload[Len(Val(s.tmp).content) + 1])
    IN  [s EXCEPT !.tmp = Some([Val(@) EXCEPT !.content = c])]

\* the end of the with block: the temporary file is closed
CloseTemp(s) == [s EXCEPT !.pc = "replace"]

\* os.replace(tmp_path, path): one step puts the temporary file's content
\* at the target path
Replace(s) ==
    [s EXCEPT !.pc = "idle", !.payload = <<>>,
              !.target = Some(Val(s.tmp).content), !.tmp = None]

\* load_or_seed_demo(path): the records of the file, the seed for a file
\* that is missing or holds none
load_or_seed_demo(target) ==
    IF ~IsNone(target) /\ load_from_file_safe(ReadTarget(target)) # <<>>
    THEN load_from_file_safe(ReadTarget(target))
    ELSE seed_books_initial

RenewBase == 14

\* Mutant of DuePassed: the comparison the wrong way round.
DuePassedFlipped(due_date) == Midnight(due_date) > now

\* "if due < datetime.now()": the due date's midnight against the clock
DuePassed(due_date) == Midnight(due_date) < now

renew_book(bs, book_id, extra_days, max_total_days) ==
    LET i == FindIdx(bs, book_id)
    IN  IF extra_days <= 0 THEN Result("ValidationError", "raise", 0, bs)
        ELSE IF i = 0 THEN Result("NotFoundError", "raise", 0, bs)
        ELSE IF bs[i].available THEN Result("", "False", 0, bs)
        ELSE IF IsNone(bs[i].due_date) THEN Result("", "False", 0, bs)
        ELSE IF DuePassed(Val(bs[i].due_date)) THEN Result("", "False", 0, bs)
        ELSE IF RenewBase + extra_days > max_total_days
        THEN Result("", "False", 0, bs)
        ELSE Result("", "True", 0,
                    [bs EXCEPT ![i].due_date = Some(Val(@) + extra_days)])

\* ----------------------------------------------------------------- state
\* last: the call just made (its arguments, what it gave back, and the
\* addressed record as it was before the call); hist[i]: the record at
\* index i as it was just before its latest successful borrow, None once
\* somebody has joined its waitlist since.
\* isint: the id argument was an int; args: the other arguments of the call;
\* out: the records a query returned; fee: the fee it reported.
NoArgs == [none |-> TRUE]

Call(op, id, user, n, m, r, pre) ==
    [op |-> op, id |-> id, user |-> user, n |-> n, max |-> m,
     ret |-> r.ret, delay |-> r.delay, err |-> r.err, pre |-> pre,
     isint |-> TRUE, args |-> NoArgs, out |-> <<>>, fee |-> 0]

NoCall(op) == Call(op, 0, <<>>, 0, 0, Result("", "None", 0, <<>>), None)

PreOf(bs, book_id) ==
    IF FindIdx(bs, book_id) = 0 THEN None ELSE Some(bs[FindIdx(bs, book_id)])

InitAt(times) ==
    /\ books = <<>>
    /\ now \in times
    /\ last = NoCall("init")
    /\ hist = <<>>
    /\ save = NoSave(None)

Init == InitAt({0})

Add(title, author, dis, cap) ==
    LET r == add_book_pro(books, title, author, dis)
    IN  /\ Len(books) < cap
        /\ books' = r.books
        /\ hist' = IF r.err = "" THEN Append(hist, None) ELSE hist
        /\ last' = [Call("add", 0, <<>>, 0, 0, r, None) EXCEPT
                        !.args = [title |-> title, author |-> author,
                                  dis |-> dis]]
        /\ UNCHANGED <<now, save>>

Import(file, cap) ==
    \E r \in {import_from_csv(books, file)} :
        /\ Len(r.books) <= cap
        /\ books' = r.books
        /\ hist' = hist \o [k \in 1..(Len(r.books) - Len(books)) |-> None]
        /\ last' = [Call("import", 0, <<>>, r.added, 0, r, None) EXCEPT
                        !.args = [file |-> file]]
        /\ UNCHANGED <<now, save>>

Borrow(book_id, username, days) ==
    LET r == borrow_book_safe(books, book_id, username, days)
        i == FindIdx(books, book_id.v)
    IN  /\ books' = r.books
        /\ hist' = IF r.ret = "True"
                   THEN [hist EXCEPT ![i] = Some(books[i])] ELSE hist
        /\ last' = [Call("borrow", book_id.v, username, days, 0, r,
                         PreOf(books, book_id.v)) EXCEPT
                        !.isint = book_id.isint]
        /\ UNCHANGED <<now, save>>

Join(book_id, username) ==
    LET r == join_waitlist(books, book_id, username)
        i == FindIdx(books, book_id)
    IN  /\ books' = r.books
        /\ hist' = IF r.ret = "True" THEN [hist EXCEPT ![i] = None] ELSE hist
        /\ last' = Call("join", book_id, username, 0, 0, r,
                        PreOf(books, book_id))
        /\ UNCHANGED <<now, save>>

Return(book_id) ==
    LET r == return_book_with_delay(books, book_id)
    IN  /\ books' = r.books
        /\ last' = Call("return", book_id, <<>>, 0, 0, r,
                        PreOf(books, book_id))
        /\ UNCHANGED <<now, hist, save>>

ReturnFee(book_id, fee_per_day) ==
    \E r \in {return_book_with_delay_fee(books, book_id, fee_per_day)} :
        /\ books' = r.books
        /\ last' = [Call("return", book_id, <<>>, 0, 0, r,
                         PreOf(books, book_id)) EXCEPT
                        !.fee = r.fee,
                        !.args = [fee_per_day |-> fee_per_day]]
        /\ UNCHANGED <<now, hist, save>>

ListOverdue(today, fee_per_day) ==
    \E r \in {list_overdue_stats(books, today, fee_per_day)} :
        /\ last' = [Call("overdue", 0, <<>>, r.count, 0,
                         Result("", "tuple", 0, books), None) EXCEPT
                        !.out = r.out,
                        !.fee = r.fee,
                        !.args = [today |-> today, fee_per_day |-> fee_per_day]]
        /\ UNCHANGED <<books, now, hist, save>>

Search(c) ==
    \E r \in {search_books_adv(books, c)} :
        /\ last' = [Call("search", 0, <<>>, Len(r), 0,
                         Result("", "list", 0, books), None) EXCEPT
                        !.out = r,
                        !.args = c]
        /\ UNCHANGED <<books, now, hist, save>>

Load(file) ==
    /\ books' = load_from_file_safe(file)
    /\ hist' = [i \in 1..Len(books') |-> None]
    /\ last' = [NoCall("load") EXCEPT !.args = [file |-> file]]
    /\ UNCHANGED <<now, save>>

\* ahead bounds the model: no renewal moves a due date further past today.
Renew(book_id, extra_days, max_total_days, ahead) ==
    LET r == renew_book(books, book_id, extra_days, max_total_days)
        i == FindIdx(books, book_id)
    IN  /\ r.ret = "True" => Val(r.books[i].due_date) - _today_str <= ahead
        /\ books' = r.books
        /\ last' = Call("renew", book_id, <<>>, extra_days, max_total_days, r,
                        PreOf(books, book_id))
        /\ UNCHANGED <<now, hist, save>>

\* The wall clock moves between calls.
Tick ==
    /\ now < MaxNow
    /\ now' = now + 1
    /\ last' = NoCall("tick")
    /\ UNCHANGED <<books, hist, save>>

\* save_to_file_meta, a step at a time.  The program does nothing else while
\* it saves.
SaveBegin(with_meta) ==
    /\ save.pc = "idle"
    /\ save' = OpenTemp(save, books, with_meta)
    /\ last' = [NoCall("save") EXCEPT !.args = [with_meta |-> with_meta]]
    /\ UNCHANGED <<books, now, hist>>

SaveDump ==
    /\ save.pc = "dump"
    /\ Len(Val(save.tmp).content) < Len(save.payload)
    /\ save' = DumpChunk(save)
    /\ UNCHANGED <<books, now, last, hist>>

SaveClose ==
    /\ save.pc = "dump"
    /\ Len(Val(save.tmp).content) = Len(save.payload)
    /\ save' = CloseTemp(save)
    /\ UNCHANGED <<books, now, last, hist>>

SaveReplace ==
    /\ save.pc = "replace"
    /\ save' = Replace(save)
    /\ UNCHANGED <<books, now, last, hist>>

\* The process dies in the middle of a save and main() starts again: the
\* temporary file stays behind, the records come from load_or_seed_demo,
\* which saves the seed when it had to fall back on it.
Crash ==
    /\ save.pc # "idle"
    /\ books' = load_or_seed_demo(save.target)
    /\ hist' = [i \in 1..Len(books') |-> None]
    /\ last' = NoCall("crash")
    /\ save' = IF IsNone(save.target)
                  \/ load_from_file_safe(ReadTarget(save.target)) = <<>>
               THEN OpenTemp(save, books', TRUE)
               ELSE [save EXCEPT !.pc = "idle", !.payload = <<>>]
    /\ UNCHANGED now

\* Command y: the records are read back from the target path.
Reload ==
    /\ save.pc = "idle"
    /\ books' = load_from_file_safe(ReadTarget(save.target))
    /\ hist' = [i \in 1..Len(books') |-> None]
    /\ last' = NoCall("reload")
    /\ UNCHANGED <<now, save>>

\* ------------------------------------------- the library-wide specification
\* Up to MaxBooks records and one patron; the clock stands still at the
\* midnight of day 0 or in the middle of day 1.
TitleInputs == {<<"a">>, <<"A", " ">>, <<" ">>}
AuthorInputs == {<<"b">>}
LibUsers == {<<"a">>}
LibIds == 1..MaxBooks

LibAdd == \E t \in TitleInputs, a \in AuthorInputs, d \in BOOLEAN : Add(t, a, d, MaxBooks)
LibBorrow == \E i \in LibIds, u \in LibUsers : Borrow(PyInt(i), u, 1)
LibJoin == \E i \in LibIds, u \in LibUsers : Join(i, u)
LibReturn == \E i \in LibIds : Return(i)
LibRenew == \E i \in LibIds : Renew(i, 7, 28, MaxAheadWait)

Next == LibAdd \/ LibBorrow \/ LibJoin \/ LibReturn \/ LibRenew

Spec == InitAt({0, 3}) /\ [][Next]_vars

\* ------------------------------------------------ the waitlist specification
\* LoanBooks records; patrons whose names differ in case and padding, and a
\* blank name; the clock stands still in the middle of day 1.
WaitUsers == {<<"a">>, <<"A", " ">>, <<" ">>}
WaitIds == 1..LoanBooks

WaitAdd == Add(<<"a">>, <<"b">>, FALSE, LoanBooks)
WaitBorrow == \E i \in WaitIds, u \in WaitUsers : Borrow(PyInt(i), u, 1)
WaitJoin == \E i \in WaitIds, u \in WaitUsers : Join(i, u)
WaitReturn == \E i \in WaitIds : Return(i)
WaitRenew == \E i \in WaitIds : Renew(i, 7, 28, MaxAheadWait)

NextWait == WaitAdd \/ WaitBorrow \/ WaitJoin \/ WaitReturn \/ WaitRenew

SpecWait == InitAt({3}) /\ [][NextWait]_vars

\* --------------------------------------------------- the queue specification
\* LoanBooks records and three patrons with different names; the clock
\* stands still in the middle of day 1.
QueueUsers == {<<"a">>, <<"b">>, <<"c">>}

QueueAdd == Add(<<"a">>, <<"b">>, FALSE, LoanBooks)
QueueBorrow == \E i \in WaitIds, u \in QueueUsers : Borrow(PyInt(i), u, 1)
QueueJoin == \E i \in WaitIds, u \in QueueUsers : Join(i, u)
QueueReturn == \E i \in WaitIds : Return(i)

NextQueue == QueueAdd \/ QueueBorrow \/ QueueJoin \/ QueueReturn

SpecQueue == InitAt({3}) /\ [][NextQueue]_vars

\* ---------------------------------------------------- the clock specification
\* LoanBooks records and one patron, while the clock runs from tick 0 to
\* MaxNow: loans fall due and become overdue.
TimeUsers == {<<"a">>}
TimeDays == {1, 7}
TimeExtra == {7, 15}
TimeMaxTotal == {28}

TimeAdd == Add(<<"a">>, <<"b">>, FALSE, LoanBooks)
TimeBorrow == \E i \in WaitIds, u \in TimeUsers, d \in TimeDays : Borrow(PyInt(i), u, d)
TimeReturn == \E i \in WaitIds : Return(i)
TimeRenew == \E i \in WaitIds, e \in TimeExtra, m \in TimeMaxTotal : Renew(i, e, m, MaxAhead)

NextTime == TimeAdd \/ TimeBorrow \/ TimeReturn \/ TimeRenew \/ Tick

SpecTime == Init /\ [][NextTime]_vars

\* ------------------------------------------------ the argument specification
\* LoanBooks records addressed by ids that exist, ids that do not and an id
\* that is no int; loan lengths around zero; names with padding and a blank
\* name; the clock stands still in the middle of day 1.
ArgUsers == {<<"a">>, <<" ", "A">>, <<" ">>}
ArgDays == {-1, 0, 2}
ArgIds == 1..(LoanBooks + 1)
ArgObjs == {PyInt(i) : i \in ArgIds} \cup {PyStr(1)}

ArgAdd == Add(<<"a">>, <<"b">>, FALSE, LoanBooks)
ArgBorrow == \E o \in ArgObjs, u \in ArgUsers, d \in ArgDays : Borrow(o, u, d)
ArgJoin == \E i \in ArgIds, u \in ArgUsers : Join(i, u)

NextArg == ArgAdd \/ ArgBorrow \/ ArgJoin

SpecArg == InitAt({3}) /\ [][NextArg]_vars

\* ------------------------------------------------- the catalogue specification
\* Up to MaxBooks records added one by one, duplicates refused or not; titles
\* that differ in case, accent and padding, and in the Turkish capitals I;
\* a blank title and a blank author; the clock stands still in day 1.
CatPairs ==
    {<<t, <<"b">>>> :
        t \in {<<"u">>, <<"U:", " ">>, <<"a", "I">>, <<"a", "I.">>,
               <<"a", "i">>, <<" ">>}}
    \cup {<<<<"u">>, <<" ">>>>, <<<<"u">>, <<"B">>>>, <<<<"u">>, <<"c">>>>}

CatAdd == \E p \in CatPairs, d \in BOOLEAN : Add(p[1], p[2], d, MaxBooks)

NextCat == CatAdd

SpecCat == InitAt({3}) /\ [][NextCat]_vars

\* ------------------------------------------------------ the CSV specification
\* Up to MaxBooks records, imported from CSV files of up to MaxRows rows or
\* added by hand; rows whose titles differ in the Turkish letters i, rows
\* repeated within a file, a row with a blank title and no author column, and
\* a path that does not exist; the clock stands still in day 1.
MaxRows == 2
CsvRows ==
    {[title |-> Some(t), author |-> Some(<<"b">>)] :
        t \in {<<"u">>, <<"i">>, <<"i-">>}}
    \cup {[title |-> Some(<<" ">>), author |-> None]}
CsvFiles == {None} \cup {Some(rows) : rows \in SeqsUpTo(CsvRows, MaxRows)}

CsvAdd == Add(<<"i-">>, <<"b">>, FALSE, MaxBooks)
CsvImport == \E f \in CsvFiles : Import(f, MaxBooks)

NextCsv == CsvAdd \/ CsvImport

SpecCsv == InitAt({3}) /\ [][NextCsv]_vars

\* -------------------------------------------------- the overdue specification
\* The seed collection, or up to MaxBooks records loaded from a file: loans
\* due on days 0 to 2, loans whose due date does not parse or is missing,
\* records that are available, one of them with a stale due date, and a
\* record without the "available" key; listings are asked for today, for
\* the days around it and for a date that does not parse, while the clock
\* runs from tick 0 to MaxNow.
DefaultFeePerDay == 150
FileRecord(nid, avail, due) ==
    [id |-> nid, title |-> <<"A">>, author |-> <<"B">>, available |-> avail,
     borrower |-> IF avail = Some(FALSE) THEN Some(<<"a">>) ELSE None,
     due_date |-> due, borrowed_at |-> None, created_at |-> Some(0),
     waitlist |-> None]
OverdueKinds ==
    {<<Some(FALSE), Some(0)>>, <<Some(FALSE), Some(1)>>,
     <<Some(FALSE), BadDate>>, <<Some(FALSE), None>>,
     <<Some(TRUE), Some(0)>>, <<None, None>>}
OverdueFiles ==
    {None} \cup
    {Some([i \in 1..Len(ks) |-> FileRecord(i, ks[i][1], ks[i][2])]) :
        ks \in SeqsUpTo(OverdueKinds, MaxBooks)}
TodayArgs == {None, BadDate} \cup {Some(d) : d \in 0..2}

InitSeed ==
    /\ now = 0
    /\ books = seed_books_initial
    /\ last = NoCall("init")
    /\ hist = [i \in 1..Len(books) |-> None]
    /\ save = NoSave(None)

OverdueLoad == \E f \in OverdueFiles : Load(f)
OverdueList == \E t \in TodayArgs : ListOverdue(t, DefaultFeePerDay)

NextOverdue == OverdueLoad \/ OverdueList \/ Tick

SpecOverdue == InitSeed /\ [][NextOverdue]_vars

\* ---------------------------------------------------- the delay specification
\* LoanBooks records, added or loaded from a file with a loan whose due date
\* does not parse or is missing; one borrower and one waiter; returns at no
\* fee and at the default fee while the clock runs from tick 0 to MaxNow.
DelayFiles ==
    {Some(<<FileRecord(1, Some(FALSE), d)>>) : d \in {BadDate, None}}
FeeRates == {0, DefaultFeePerDay}

DelayAdd == Add(<<"a">>, <<"b">>, FALSE, LoanBooks)
DelayLoad == \E f \in DelayFiles : Load(f)
DelayBorrow == \E i \in WaitIds : Borrow(PyInt(i), <<"a">>, 1)
DelayJoin == \E i \in WaitIds : Join(i, <<"b">>)
DelayReturn == \E i \in WaitIds, f \in FeeRates : ReturnFee(i, f)

NextDelay ==
    DelayAdd \/ DelayLoad \/ DelayBorrow \/ DelayJoin \/ DelayReturn \/ Tick

SpecDelay == Init /\ [][NextDelay]_vars

\* --------------------------------------------------- the search specification
\* A collection of up to MaxBooks records as load_from_file_safe gives it:
\* a record that is available, loans due on day 0 and on day 2, and a loan
\* under an accented title whose due date does not parse.  Queries of one
\* and of two words, in another case, blank; every mode, with and without
\* normalisation, as a pattern; every filter; every sort order.
SearchKinds ==
    {<<<<"A">>, Some(TRUE), None>>, <<<<"a">>, Some(FALSE), Some(0)>>,
     <<<<"A">>, Some(FALSE), Some(2)>>, <<<<"U:">>, Some(FALSE), BadDate>>}
SearchFiles ==
    {Some([i \in 1..Len(ks) |->
              [FileRecord(i, ks[i][2], ks[i][3]) EXCEPT !.title = ks[i][1]]]) :
        ks \in SeqsUpTo(SearchKinds, MaxBooks)}
SearchCall(q, m, re, nz, av, bo, du, ob) ==
    [query |-> q, mode |-> m, regex |-> re, normalize |-> nz,
     available |-> av, borrower |-> bo, due_before |-> du, order_by |-> ob]
Queries == {<<"B">>, <<" ", "u">>, <<"u", " ", "a">>, <<" ">>}
TextCalls ==
    {SearchCall(q, m, FALSE, nz, None, None, None, "title") :
        q \in Queries, m \in {"any", "all", "prefix"}, nz \in BOOLEAN}
    \cup {SearchCall(q, "any", TRUE, nz, None, None, None, "title") :
            q \in Queries, nz \in BOOLEAN}
FilterCalls ==
    {SearchCall(q, "any", FALSE, TRUE, av, bo, du, "title") :
        q \in {<<"B">>, <<" ">>},
        av \in {None, Some(TRUE), Some(FALSE)},
        bo \in {None, Some(<<"A">>)},
        du \in {None, Some(1), BadDate}}
OrderCalls ==
    {SearchCall(<<"B">>, "any", FALSE, TRUE, None, None, None, ob) :
        ob \in {"author", "due", "created"}}

InitSearch ==
    /\ now = 3
    /\ books \in {load_from_file_safe(f) : f \in SearchFiles}
    /\ last = NoCall("init")
    /\ hist = [i \in 1..Len(books) |-> None]
    /\ save = NoSave(None)

SearchQuery == \E c \in TextCalls \cup FilterCalls \cup OrderCalls : Search(c)

NextSearch == SearchQuery

SpecSearch == InitSearch /\ [][NextSearch]_vars

\* ------------------------------------------------------ the save specification
\* Records are added and the clock moves between saves; a save runs a step
\* at a time and the process can die at each of them.
SaveTitles == {<<"a">>, <<"u:">>}
SaveMaxNow == 1

SaveAdd ==
    /\ save.pc = "idle"
    /\ \E t \in SaveTitles : Add(t, <<"b">>, TRUE, MaxBooks)
SaveTick == now < SaveMaxNow /\ Tick
SaveStart == \E with_meta \in BOOLEAN : SaveBegin(with_meta)

NextSave ==
    \/ SaveAdd
    \/ SaveTick
    \/ SaveStart
    \/ SaveDump
    \/ SaveClose
    \/ SaveReplace
    \/ Crash
    \/ Reload

SpecSave == Init /\ [][NextSave]_vars

\* ================================================================= claims
LastIdx == FindIdx(books, last.id)
\* The last call addressed a record that exists and raised nothing.
Acted(op) == last.op = op /\ last.err = "" /\ last.pre # None
LastPre == Val(last.pre)
Today == DateOf(now)
Present(o) == o # None
PresentText(o) == o # None /\ Val(o) # <<>>

\* C1: in every reachable state every record with available == false has a
\* present, non-empty borrower and a present, non-empty due_date.
C1_BorrowedHasBorrowerAndDue ==
    \A i \in 1..Len(books) :
        ~books[i].available =>
            PresentText(books[i].borrower) /\ Present(books[i].due_date)

\* C2: in every reachable state a record has available == true if and only
\* if its borrower, borrowed_at and due_date are all absent.
C2_AvailableIffLoanFieldsAbsent ==
    \A i \in 1..Len(books) :
        books[i].available <=>
            (/\ books[i].borrower = None
             /\ books[i].borrowed_at = None
             /\ books[i].due_date = None)

\* C2 witness: a return has just made a borrowed record available again.
C2_Witness ==
    /\ Acted("return")
    /\ ~LastPre.available
    /\ books[LastIdx].available

\* The loan the last call found: borrowed, with both of its dates.
LastPreOnLoan ==
    /\ ~LastPre.available
    /\ Present(LastPre.due_date)
    /\ Present(LastPre.borrowed_at)

\* C3: a renew call that would make the loan's total length (due_date minus
\* borrowed_at) exceed maxTotalDays returns false and leaves due_date
\* unchanged.
C3_RenewKeepsTotalWithinMax ==
    (/\ Acted("renew")
     /\ LastPreOnLoan
     /\ Val(LastPre.due_date) + last.n - Val(LastPre.borrowed_at) > last.max)
    => (/\ last.ret = "False"
        /\ books[LastIdx].due_date = LastPre.due_date)

\* C4: for a borrowed record whose due_date is today or later, renew with
\* extraDays > 0 returns true exactly when 14 + extraDays <= maxTotalDays;
\* when true, due_date advances by exactly extraDays and nothing else
\* changes; when false, the record is unchanged.
C4_RenewExactlyWhenCapAllows ==
    (/\ Acted("renew")
     /\ LastPreOnLoan
     /\ Val(LastPre.due_date) >= Today)
    => (/\ last.ret = "True" <=> 14 + last.n <= last.max
        /\ last.ret = "True" =>
              books[LastIdx] =
                 [LastPre EXCEPT !.due_date = Some(Val(@) + last.n)]
        /\ last.ret = "False" => books[LastIdx] = LastPre)

\* C5: renew on an overdue record (not available, due_date strictly before
\* today) returns false for every extraDays > 0 and every maxTotalDays and
\* leaves every field of the record unchanged.
C5_RenewOverdueRefused ==
    (/\ Acted("renew")
     /\ LastPreOnLoan
     /\ Val(LastPre.due_date) < Today)
    => (last.ret = "False" /\ books[LastIdx] = LastPre)

\* C5 witness: a renew the cap would allow was made on an overdue loan.
C5_Witness ==
    /\ Acted("renew")
    /\ LastPreOnLoan
    /\ Val(LastPre.due_date) < Today
    /\ 14 + last.n <= last.max

\* C6: return on a borrowed record with a non-empty waitlist removes the
\* head entry within the same call and leaves the record with
\* available == false, borrower the former head, borrowed_at == today and
\* due_date == today + 14; the other entries keep their order and the
\* waitlist is shorter by exactly one.
C6_ReturnAssignsHeadWaiter ==
    (/\ Acted("return")
     /\ ~LastPre.available
     /\ LastPre.waitlist # <<>>)
    => LET b == books[LastIdx]
           w == LastPre.waitlist
       IN  /\ ~b.available
           /\ b.borrower = Some(w[1])
           /\ b.borrowed_at = Some(Today)
           /\ b.due_date = Some(Today + 14)
           /\ Len(b.waitlist) = Len(w) - 1
           /\ \A k \in 1..Len(b.waitlist) : b.waitlist[k] = w[k + 1]

\* C6 witness: a return found three waiters queued behind the borrower.
C6_Witness ==
    /\ Acted("return")
    /\ ~LastPre.available
    /\ Len(LastPre.waitlist) = 3
    /\ Len(books[LastIdx].waitlist) = 2

\* C7: borrow of an available record followed by return, with no
\* joinWaitlist in between, restores the record exactly to its state before
\* the borrow; a return that finds the waitlist non-empty leaves the record
\* borrowed by the former head of the waitlist instead.
C7_BorrowReturnRoundTrip ==
    /\ (Acted("return") /\ hist[LastIdx] # None)
          => (/\ books[LastIdx] = Val(hist[LastIdx])
              /\ books[LastIdx].available
              /\ books[LastIdx].borrower = None
              /\ books[LastIdx].borrowed_at = None
              /\ books[LastIdx].due_date = None)
    /\ (Acted("return") /\ LastPre.waitlist # <<>>)
          => (/\ ~books[LastIdx].available
              /\ books[LastIdx].borrower = Some(Head(LastPre.waitlist)))

\* C7 witness: a loan nobody queued for, renewed meanwhile, has come back.
C7_Witness ==
    /\ Acted("return")
    /\ hist[LastIdx] # None
    /\ ~LastPre.available
    /\ LastPre.due_date # Some(Val(LastPre.borrowed_at) + 1)

\* C9: no record's waitlist holds two entries that are equal under the
\* normalised comparison (trim, accent stripping, Turkish-aware lowercasing).
C9_WaitlistNoNormalisedDuplicates ==
    \A i \in 1..Len(books) :
        \A k, l \in 1..Len(books[i].waitlist) :
            k # l => norm_key(Some(books[i].waitlist[k]))
                        # norm_key(Some(books[i].waitlist[l]))

\* C9 witness: a join was refused for a name that is queued only in another
\* spelling.
C9_Witness ==
    /\ Acted("join")
    /\ last.ret = "False"
    /\ ~LastPre.available
    /\ \A k \in 1..Len(LastPre.waitlist) : LastPre.waitlist[k] # Strip(last.user)
    /\ \E k \in 1..Len(LastPre.waitlist) :
          NormText(LastPre.waitlist[k]) = NormText(last.user)

\* C8: all record ids are positive and pairwise distinct; each add assigns an
\* id strictly greater than every id already in the collection (1 for an
\* empty collection, the largest id plus one otherwise); no step changes or
\* reuses an existing id.
C8_IdsInvariant ==
    /\ \A i \in 1..Len(books) : books[i].id > 0
    /\ \A i, j \in 1..Len(books) : i # j => books[i].id # books[j].id
    /\ (last.op = "add" /\ last.err = "")
          => LET n == Len(books)
             IN  /\ n >= 1
                 /\ \A j \in 1..(n - 1) : books[n].id > books[j].id
                 /\ n = 1 => books[n].id = 1
                 /\ n > 1 => \E j \in 1..(n - 1) :
                                /\ books[n].id = books[j].id + 1
                                /\ \A k \in 1..(n - 1) : books[k].id <= books[j].id

C8_IdsKept ==
    /\ Len(books') >= Len(books)
    /\ \A i \in 1..Len(books) : books'[i].id = books[i].id

C8_UniqueIncreasingIds == [](C8_IdsInvariant) /\ [][C8_IdsKept]_vars

\* C8 witness: an add has just succeeded on a collection that already held
\* a record on loan.
C8_Witness ==
    /\ last.op = "add"
    /\ last.err = ""
    /\ Len(books) = 2
    /\ ~books[1].available

\* C10: return on a record that is already available raises nothing, reports
\* success with delayDays == 0 and leaves the whole collection unchanged;
\* a second return right after a return that found the waitlist empty
\* changes nothing either.
C10_ReturnOfAvailable ==
    (last'.op = "return" /\ last'.pre # None /\ Val(last'.pre).available)
    => (/\ last'.err = ""
        /\ last'.ret = "True"
        /\ last'.delay = 0
        /\ books' = books)

C10_SecondReturnSame ==
    (Acted("return") /\ LastPre.waitlist = <<>>)
    => LET r == return_book_with_delay(books, last.id)
       IN  r.err = "" /\ r.ret = "True" /\ r.delay = 0 /\ r.books = books

C10_ReturnIdempotent ==
    [](C10_SecondReturnSame) /\ [][C10_ReturnOfAvailable]_vars

\* C10 witness: on day 2 or later a return was made on a record that was
\* already available.
C10_Witness ==
    /\ Acted("return")
    /\ LastPre.available
    /\ books[LastIdx].available
    /\ Today >= 2

\* C11: borrow fails with ValidationError when days <= 0, when the username
\* is blank after trimming or when the id is not an integer, and with
\* NotFoundError when the arguments are valid but no record has that id; in
\* every failing case no record of the collection is modified.
C11_BorrowFails ==
    last'.op = "borrow" =>
        LET bad == \/ last'.n <= 0
                   \/ Strip(last'.user) = <<>>
                   \/ ~last'.isint
            unknown == \A i \in 1..Len(books) : books[i].id # last'.id
        IN  /\ bad => last'.err = "ValidationError"
            /\ (~bad /\ unknown) => last'.err = "NotFoundError"
            /\ last'.err # "" => books' = books

C11_BorrowRejectsBadCalls == [][C11_BorrowFails]_vars

\* C11 witness: a borrow of an available record was refused for its blank
\* username alone.
C11_Witness ==
    /\ last.op = "borrow"
    /\ last.err = "ValidationError"
    /\ last.isint
    /\ last.n > 0
    /\ last.pre # None
    /\ LastPre.available
    /\ books[LastIdx] = LastPre

\* A borrow whose arguments pass validation and whose id names a record.
ValidBorrow ==
    /\ last.op = "borrow"
    /\ last.isint
    /\ last.n > 0
    /\ Strip(last.user) # <<>>
    /\ last.pre # None

\* C12: borrow on a record that is already borrowed returns false without
\* raising and leaves its borrower, borrowed_at, due_date and waitlist as
\* they were; on an available record it returns true and sets available to
\* false, borrower to the trimmed username, borrowed_at to today and
\* due_date to today + days.
C12_BorrowEffect ==
    ValidBorrow =>
        LET b == books[LastIdx]
        IN  /\ last.err = ""
            /\ ~LastPre.available =>
                  /\ last.ret = "False"
                  /\ b.borrower = LastPre.borrower
                  /\ b.borrowed_at = LastPre.borrowed_at
                  /\ b.due_date = LastPre.due_date
                  /\ b.waitlist = LastPre.waitlist
            /\ LastPre.available =>
                  /\ last.ret = "True"
                  /\ ~b.available
                  /\ b.borrower = Some(Strip(last.user))
                  /\ b.borrowed_at = Some(Today)
                  /\ b.due_date = Some(Today + last.n)

\* C12 witness: a padded name borrowed an available record for two days.
C12_Witness ==
    /\ ValidBorrow
    /\ LastPre.available
    /\ last.user # Strip(last.user)
    /\ last.n = 2
    /\ ~books[LastIdx].available

\* C13: joinWaitlist returns false and changes nothing when the record is
\* available or the normalised username is already in its waitlist;
\* otherwise it appends the trimmed username at the end of the waitlist,
\* changes no other field and returns true; with an unknown id it fails
\* with NotFoundError and changes nothing.
C13_JoinStep ==
    last'.op = "join" =>
        LET i == FindIdx(books, last'.id)
            queued == \E k \in 1..Len(books[i].waitlist) :
                         norm_key(Some(books[i].waitlist[k]))
                            = norm_key(Some(last'.user))
        IN  IF i = 0
            THEN last'.err = "NotFoundError" /\ books' = books
            ELSE IF books[i].available \/ queued
            THEN last'.err = "" /\ last'.ret = "False" /\ books' = books
            ELSE /\ last'.err = ""
                 /\ last'.ret = "True"
                 /\ books' = [books EXCEPT ![i].waitlist =
                                 @ \o <<Strip(last'.user)>>]

C13_JoinWaitlist == [][C13_JoinStep]_vars

\* C13 witness: a padded name was appended behind a waiter already queued.
C13_Witness ==
    /\ Acted("join")
    /\ last.ret = "True"
    /\ last.user # Strip(last.user)
    /\ LastPre.waitlist # <<>>
    /\ Len(books[LastIdx].waitlist) = Len(LastPre.waitlist) + 1

\* The (title, author) pair of record b equals the pair (t, a) under norm_key.
SamePair(b, t, a) ==
    /\ norm_key(Some(b.title)) = norm_key(Some(t))
    /\ norm_key(Some(b.author)) = norm_key(Some(a))

\* C14: add with disallowDuplicates fails with DuplicateBookError whenever
\* some existing record's (title, author) pair equals the new pair under the
\* accent- and case-insensitive normalised comparison, and then, as for
\* ValidationError on an empty title or author, the collection is left
\* unchanged: no record is appended and no id is consumed.
C14_AddStep ==
    last'.op = "add" =>
        LET A == last'.args
        IN  /\ (A.dis /\ \E i \in 1..Len(books) :
                            SamePair(books[i], A.title, A.author))
                  => last'.err = "DuplicateBookError"
            /\ (Strip(A.title) = <<>> \/ Strip(A.author) = <<>>)
                  => last'.err = "ValidationError"
            /\ last'.err # "" =>
                  books' = books /\ NextId(books') = NextId(books)

C14_DuplicateRejected == [][C14_AddStep]_vars

\* The collection is the three-record seed, whatever the clock has done since.
IsSeed ==
    /\ Len(books) = 3
    /\ books[1].title = Dune /\ books[1].author = FrankHerbert
    /\ books[2].title = KurkMantoluMadonna /\ books[2].author = SabahattinAli
    /\ books[3].title = Title1984 /\ books[3].author = GeorgeOrwell
    /\ books[1].available /\ books[2].available /\ ~books[3].available

\* The day a listing was asked for: the today argument, the clock's today
\* when it was left out.
AskedDay == IF last.args.today = None THEN Today ELSE Val(last.args.today)

QualifiesOverdue(b) ==
    /\ ~b.available
    /\ Len(b.due_date) = 1
    /\ Val(b.due_date) < AskedDay

\* C15: listOverdue(collection, today) returns exactly the records with
\* available == false, a parseable due_date and due_date strictly before
\* today (a record due on today is not included), in collection order, with
\* count equal to the length of the returned sequence and without changing
\* any record; on the three-record seed with today the current date it
\* returns exactly [1984] with count 1 and a total fee >= 0.
C15_ListedExactly ==
    (last.op = "overdue" /\ last.args.today # BadDate) =>
        /\ last.out = SelectSeq(books, QualifiesOverdue)
        /\ last.n = Len(last.out)
        /\ (IsSeed /\ AskedDay = Today) =>
              /\ last.out = <<books[3]>>
              /\ last.n = 1
              /\ last.fee >= 0

C15_ListKeepsRecords == last'.op = "overdue" => books' = books

C15_ListOverdue == [](C15_ListedExactly) /\ [][C15_ListKeepsRecords]_vars

\* C15 witness: a listing for the day after the clock's today left out the
\* loan due on that day and returned the loan due the day before.
C15_Witness ==
    /\ last.op = "overdue"
    /\ last.args.today = Some(Today + 1)
    /\ last.n = 1
    /\ \E i \in 1..Len(books) :
          ~books[i].available /\ books[i].due_date = Some(AskedDay)
    /\ \E i \in 1..Len(books) :
          ~books[i].available /\ books[i].due_date = Some(AskedDay - 1)

\* C16: return on a known id reports (true, delayDays) with delayDays the
\* whole days from the due_date the record held before the call to today,
\* 0 when that is negative or the due_date is absent or does not parse, also
\* when the waitlist auto-assign sets a new due_date in the same call;
\* delayDays and the fee derived from it are never negative.
C16_ReturnDelay ==
    (last.op = "return" /\ last.pre # None) =>
        LET due == LastPre.due_date
            expected == IF Len(due) = 1 /\ Today - Val(due) > 0
                        THEN Today - Val(due) ELSE 0
        IN  /\ last.err = ""
            /\ last.ret = "True"
            /\ last.delay = expected
            /\ last.delay >= 0
            /\ last.fee >= 0

\* C16 witness: a late return charged a fee and handed the record to the
\* waiter with a new due_date.
C16_Witness ==
    /\ Acted("return")
    /\ LastPre.waitlist # <<>>
    /\ last.delay > 0
    /\ last.fee > 0
    /\ books[LastIdx].due_date = Some(Today + 14)

\* C17: when search is called with a parseable due_before date, every
\* returned record has a parseable due_date strictly before that date;
\* records with an absent or unparseable due_date are not in the result,
\* whatever other records the collection holds.
C17_DueBeforeFilters ==
    (last.op = "search" /\ Parseable(last.args.due_before)) =>
        \A k \in 1..Len(last.out) :
            /\ Parseable(last.out[k].due_date)
            /\ Val(last.out[k].due_date) < Val(last.args.due_before)

\* C18: when search is called with the available filter set to a boolean v,
\* every returned record has available = v and is a record of the collection
\* that matches the text query; a blank query returns the empty sequence
\* whatever the filters are; the collection is left as it was.
C18_Filtered ==
    last.op = "search" =>
        LET c == last.args
        IN  /\ c.available # None =>
                  \A k \in 1..Len(last.out) :
                      last.out[k].available = Val(c.available)
            /\ \A k \in 1..Len(last.out) :
                  \E i \in 1..Len(books) :
                      /\ books[i] = last.out[k]
                      /\ TextMatch(books[i], Strip(c.query), c.mode, c.regex,
                                   c.normalize)
            /\ Strip(c.query) = <<>> => last.out = <<>>

C18_SearchKeepsBooks == last'.op = "search" => books' = books

C18_AvailableFilter == [](C18_Filtered) /\ [][C18_SearchKeepsBooks]_vars

\* C18 witness: a search for the records on loan returned one and left out
\* an available record that matches the same text.
C18_Witness ==
    /\ last.op = "search"
    /\ last.args.available = Some(FALSE)
    /\ Len(last.out) >= 1
    /\ \E i \in 1..Len(books) :
          /\ books[i].available
          /\ TextMatch(books[i], Strip(last.args.query), last.args.mode,
                       last.args.regex, last.args.normalize)

\* C19: during a save, at every step and after a crash at any of them, the
\* target path holds the whole previous content or the whole new content,
\* never a part of one: the target changes in one step only, the replace,
\* and by then the whole new content is in a temporary file of the target's
\* directory.
C19_TargetWhole == ~IsNone(save.target) => Complete(Val(save.target))

C19_ReplaceStep ==
    save'.target # save.target =>
        /\ save.pc = "replace"
        /\ Complete(save.payload)
        /\ save.tmp = Some([dir |-> DirOf(SavePath), content |-> save.payload])
        /\ save'.target = Some(save.payload)

C19_AtomicSave == [](C19_TargetWhole) /\ [][C19_ReplaceStep]_vars

\* C19 witness: the process died with the new content half written; the
\* half is in the temporary file left behind, the target holds the whole
\* previous content and the records were read back from it.
C19_Witness ==
    /\ last.op = "crash"
    /\ save.pc = "idle"
    /\ ~IsNone(save.tmp)
    /\ Val(save.tmp).content # <<>>
    /\ ~Complete(Val(save.tmp).content)
    /\ ~IsNone(save.target)
    /\ Complete(Val(save.target))
    /\ books # <<>>
    /\ books = load_from_file_safe(ReadTarget(save.target))

\* C20: CSV import returns a count equal to the number of records appended;
\* each row with non-blank title and author whose normalised pair matches no
\* record already in the collection, rows imported earlier in the same call
\* included, adds exactly one available record with defaulted fields;
\* duplicate and blank rows are skipped without raising.
C20_ImportStep ==
    (last'.op = "import" /\ last'.args.file # None) =>
        LET rows == Val(last'.args.file)
            n == Len(books)
            T(k) == Strip(OrEmpty(rows[k].title))
            A(k) == Strip(OrEmpty(rows[k].author))
            fresh(k) ==
                /\ T(k) # <<>> /\ A(k) # <<>>
                /\ \A i \in 1..n : ~SamePair(books[i], T(k), A(k))
                /\ \A j \in 1..(k - 1) :
                      ~(/\ norm_key(Some(T(j))) = norm_key(Some(T(k)))
                        /\ norm_key(Some(A(j))) = norm_key(Some(A(k))))
            added(k) == {i \in (n + 1)..Len(books') :
                            /\ books'[i].title = titlecase_tr(T(k))
                            /\ books'[i].author = titlecase_tr(A(k))}
        IN  /\ last'.err = ""
            /\ last'.n = Len(books') - n
            /\ SubSeq(books', 1, n) = books
            /\ \A i \in (n + 1)..Len(books') :
                  books'[i] = NewBook(books'[i].id, books'[i].title,
                                      books'[i].author)
            /\ \A k \in 1..Len(rows) :
                  fresh(k) => Cardinality(added(k)) = 1

C20_ImportAddsFreshRows == [][C20_ImportStep]_vars


\* The place of name u in waitlist w, 0 when it is not queued.
Pos(w, u) ==
    IF \E k \in 1..Len(w) : w[k] = u
    THEN CHOOSE k \in 1..Len(w) : w[k] = u
    ELSE 0

\* C21: the waitlist is served first in, first out.  In every step and for
\* every record: a name leaves the waitlist only from its head, in a return
\* of that record that makes it the borrower; the names that stay keep their
\* order; a name that joins goes behind all that are queued; a return of a
\* record with waiters serves exactly one of them; and while names are
\* queued nobody but the head becomes the borrower.  So users who joined in
\* the order u1..uk become borrower in that order, one per return, and the
\* k-th return leaves the waitlist empty.
C21_FifoStep ==
    \A i \in 1..Len(books) :
        LET w == books[i].waitlist
            w2 == books'[i].waitlist
            b2 == books'[i]
        IN  /\ (/\ last'.op = "return"
                /\ last'.id = books[i].id
                /\ w # <<>>) =>
                  /\ Len(w2) = Len(w) - 1
                  /\ b2.borrower = Some(w[1])
            /\ \/ b2 = books[i]
               \/ /\ \A k \in 1..Len(w) :
                        Pos(w2, w[k]) = 0 =>
                            /\ k = 1
                            /\ last'.op = "return"
                            /\ last'.id = books[i].id
                            /\ ~b2.available
                            /\ b2.borrower = Some(w[1])
                  /\ \A j, k \in 1..Len(w) :
                        (j < k /\ Pos(w2, w[j]) # 0 /\ Pos(w2, w[k]) # 0) =>
                            Pos(w2, w[j]) < Pos(w2, w[k])
                  /\ \A k \in 1..Len(w2) :
                        Pos(w, w2[k]) = 0 =>
                            /\ k = Len(w2)
                            /\ last'.op = "join"
                            /\ last'.id = books[i].id
                            /\ w2[k] = Strip(last'.user)
                  /\ (w # <<>> /\ b2.borrower # books[i].borrower) =>
                        b2.borrower = Some(w[1])

C21_WaitlistFifo == [][C21_FifoStep]_vars

\* C21 witness: b and c queued in that order behind a; the first return gave
\* the record to b, and the second return has now given it to c and left
\* the waitlist empty.
C21_Witness ==
    /\ Acted("return")
    /\ LastPre.borrower = Some(<<"b">>)
    /\ LastPre.waitlist = <<<<"c">>>>
    /\ books[LastIdx].borrower = Some(<<"c">>)
    /\ books[LastIdx].waitlist = <<>>
    /\ hist[LastIdx] = None

\* C22: in every state reached from the empty collection by add, borrow,
\* join, return and renew calls, a record with available == true has an
\* empty waitlist.
C22_AvailableHasNoWaiters ==
    \A i \in 1..Len(books) : books[i].available => books[i].waitlist = <<>>

\* C22 witness: a record that went to a waiter on one return has come back
\* on the next return and is available, nobody queued.
C22_Witness ==
    /\ Acted("return")
    /\ ~LastPre.available
    /\ LastPre.waitlist = <<>>
    /\ hist[LastIdx] = None
    /\ books[LastIdx].available
    /\ books[LastIdx].waitlist = <<>>

\* C23: a borrow, join, return or renew addressed to id X leaves every
\* record with another id as it was; no call changes the id, title, author
\* or created_at of a record, removes a record or moves it to another
\* place; the collection grows only by a successful add, by exactly one
\* record, and a failed add leaves it as it was.
C23_FrameStep ==
    /\ Len(books') >= Len(books)
    /\ \A i \in 1..Len(books) :
          /\ books'[i].id = books[i].id
          /\ books'[i].title = books[i].title
          /\ books'[i].author = books[i].author
          /\ books'[i].created_at = books[i].created_at
    /\ last'.op \in {"borrow", "join", "return", "renew"} =>
          /\ Len(books') = Len(books)
          /\ \A i \in 1..Len(books) :
                books[i].id # last'.id => books'[i] = books[i]
    /\ last'.op = "add" =>
          IF last'.err = ""
          THEN Len(books') = Len(books) + 1
          ELSE books' = books
    /\ Len(books') # Len(books) => last'.op = "add" /\ last'.err = ""

C23_FrameOfCalls == [][C23_FrameStep]_vars

\* C23 witness: the second record has just been returned while the first is
\* on loan with a waiter, a state the return of the second left alone.
C23_Witness ==
    /\ Acted("return")
    /\ Len(books) = 2
    /\ last.id = books[2].id
    /\ ~LastPre.available
    /\ ~books[1].available
    /\ books[1].waitlist # <<>>

\* C24: listOverdue is determined by its arguments.  For every parseable
\* today argument and the fee per day, the call on a collection gives the
\* same (records, count, total fee) after a step that leaves the collection
\* as it was, on whatever day the clock then stands.
C24_SameAnswer ==
    books' = books =>
        \A t \in {a \in TodayArgs : Parseable(a)} :
            list_overdue_stats(books, t, DefaultFeePerDay)'
                = list_overdue_stats(books, t, DefaultFeePerDay)

C24_ListOverdueByArguments == [][C24_SameAnswer]_vars

\* C25: in every reachable state the borrower of a record is not an entry
\* of that record's waitlist under the normalised comparison.
C25_BorrowerNotQueued ==
    \A i \in 1..Len(books) :
        Present(books[i].borrower) =>
            \A k \in 1..Len(books[i].waitlist) :
                norm_key(Some(books[i].waitlist[k]))
                    # norm_key(books[i].borrower)
====
